---- MODULE Spec2Model ----
(***************************************************************************)
(* Model of src/scraper.py: Scraper.fetch_and_process_reviews, the         *)
(* paginated fetch / normalize / checkpoint driver, with the helpers it    *)
(* calls (fetch_product_reviews, process_reviews, save_processed_reviews,  *)
(* clean_filename, get_reviews_path).                                       *)
(*                                                                         *)
(* Python values: None is the string "None"; a str is a TLA+ string; a     *)
(* dict with str keys is a function whose domain is a set of strings; a    *)
(* list is a sequence.  time.time() is the integer clock `now` (seconds).  *)
(***************************************************************************)
EXTENDS Integers, Sequences, FiniteSets, TLC

\* ---------------------------------------------------------------- bounds
MaxFetches == 4      \* the synthetic source serves at most this many pages
MaxPagesArg == 3     \* max_pages is None or 1..MaxPagesArg
BigPage == 130       \* page size of the burst source (rate-limit scenario)
MidPage == 11        \* a page size that crosses a multiple of 10
MaxTime == 200       \* the clock is not advanced by a fetch beyond this

\* ------------------------------------------------------ program constants
RateLimit == 250     \* reviews per window, scraper.py line 268
Window == 60         \* seconds, scraper.py lines 265 and 269
SaveEvery == 10      \* scraper.py lines 313 and 345
MaxDetails == 5      \* scraper.py line 99
MaxNameLen == 50     \* clean_filename max_length, scraper.py line 160

None == "None"
ProductId == "p1"

\* Python truthiness of an optional str
Truthy(s) == s # None /\ s # ""

\* ------------------------------------------------------- string helpers
Contains(s, sub) ==
    \E i \in 1..(Len(s) - Len(sub) + 1) : SubSeq(s, i, i + Len(sub) - 1) = sub

\* first index of sub in s, 0 when absent (str.find + 1)
Find(s, sub) ==
    IF Contains(s, sub)
    THEN CHOOSE i \in 1..(Len(s) - Len(sub) + 1) :
            /\ SubSeq(s, i, i + Len(sub) - 1) = sub
            /\ \A j \in 1..(i - 1) : SubSeq(s, j, j + Len(sub) - 1) # sub
    ELSE 0

\* str.split(sep) for a non-empty separator
RECURSIVE Split(_, _)
Split(s, sep) ==
    LET i == Find(s, sep) IN
    IF i = 0 THEN << s >>
    ELSE << SubSeq(s, 1, i - 1) >> \o Split(SubSeq(s, i + Len(sep), Len(s)), sep)

DigitVal(c) ==
    CASE c = "0" -> 0 [] c = "1" -> 1 [] c = "2" -> 2 [] c = "3" -> 3
      [] c = "4" -> 4 [] c = "5" -> 5 [] c = "6" -> 6 [] c = "7" -> 7
      [] c = "8" -> 8 [] c = "9" -> 9

\* int(s) for a string of decimal digits
RECURSIVE ParseInt(_)
ParseInt(s) ==
    IF Len(s) = 0 THEN 0
    ELSE 10 * ParseInt(SubSeq(s, 1, Len(s) - 1)) + DigitVal(SubSeq(s, Len(s), Len(s)))

\* f"review_{n}"
ReviewKey(n) == "review_" \o ToString(n)

\* int(review_id.split('_')[1])
ReviewIndex(review_id) == ParseInt(Split(review_id, "_")[2])

EmptyMap == [k \in {} |-> None]

\* d[k] = v on a dict
Put(d, k, v) == [x \in (DOMAIN d) \cup {k} |-> IF x = k THEN v ELSE d[x]]

Min(a, b) == IF a < b THEN a ELSE b

Missing == "<missing>"     \* a key that the JSON object does not have

\* ------------------------------------------- urllib.parse (lines 322-324)
\* urlparse(url).query: the text after the first "?" and before the first "#"
UrlQuery(url) ==
    LET noFrag == IF Contains(url, "#") THEN SubSeq(url, 1, Find(url, "#") - 1) ELSE url
    IN  IF Contains(noFrag, "?")
        THEN SubSeq(noFrag, Find(noFrag, "?") + 1, Len(noFrag))
        ELSE ""

\* parse_qs(query)[name], << >> when the name is not a key: the pairs are
\* split at "&", a pair without "=" and a pair with a blank value are dropped
\* (the tokens of this model carry no percent escapes)
RECURSIVE QsValuesOf(_, _)
QsValuesOf(pairs, name) ==
    IF Len(pairs) = 0 THEN << >>
    ELSE LET p == Head(pairs)
             eq == Find(p, "=")
             keep == /\ eq > 0
                     /\ SubSeq(p, 1, eq - 1) = name
                     /\ Len(p) > eq
         IN  (IF keep THEN << SubSeq(p, eq + 1, Len(p)) >> ELSE << >>)
             \o QsValuesOf(Tail(pairs), name)

ParseQs(query, name) == QsValuesOf(Split(query, "&"), name)

\* lines 318-330: the cursor taken from the page's next token
ExtractCursor(next_cursor) ==
    IF Truthy(next_cursor) /\ Contains(next_cursor, "cursor=")
    THEN LET vals == ParseQs(UrlQuery(next_cursor), "cursor")
         IN  IF Len(vals) > 0 THEN vals[1] ELSE None
    ELSE next_cursor

\* ------------------------------------------------ process_reviews (47-110)
\* A raw review is [comment, title, details]; comment stands for the scalar
\* fields copied with a "" default (comment, createdAt, customer, seller),
\* title is review["product"]["title"] (Missing when product or title is
\* not there), details the list of rating entries.
ProcessedReviewLastDetails(review) ==
    [comment |-> IF review.comment = Missing THEN "" ELSE review.comment,
     details |-> [i \in 1..Min(MaxDetails, Len(review.details)) |->
                    LET j == Len(review.details) - Min(MaxDetails, Len(review.details)) + i
                    IN  [identifier |-> review.details[j].identifier,
                         rate |-> review.details[j].rate]]]

ProcessedReview(review) ==
    [comment |-> IF review.comment = Missing THEN "" ELSE review.comment,
     details |-> [i \in 1..Min(MaxDetails, Len(review.details)) |->
                    [identifier |-> review.details[i].identifier,
                     rate |-> review.details[i].rate]]]

ProcessReviewsTitleOrDefault(reviews_data, product_id, product_name) ==
    LET results == IF reviews_data.hasResults THEN reviews_data.results ELSE << >>
        name == IF ~Truthy(product_name)
                THEN IF Len(results) = 0 \/ results[1].title = Missing
                     THEN "Product_" \o product_id
                     ELSE results[1].title
                ELSE product_name
    IN  [product_name |-> name,
         product_id |-> product_id,
         reviews |-> [idx \in 1..Len(results) |->
                        << ReviewKey(idx), ProcessedReview(results[idx]) >>]]

\* reviews_data is [hasResults, results, next]; the result's reviews are the
\* dict's items in insertion order, << key, value >> pairs
ProcessReviews(reviews_data, product_id, product_name) ==
    LET results == IF reviews_data.hasResults THEN reviews_data.results ELSE << >>
        name == IF ~Truthy(product_name) /\ Len(results) > 0
                THEN IF results[1].title = Missing
                     THEN "Product_" \o product_id
                     ELSE results[1].title
                ELSE product_name
    IN  [product_name |-> name,
         product_id |-> product_id,
         reviews |-> [idx \in 1..Len(results) |->
                        << ReviewKey(idx), ProcessedReview(results[idx]) >>]]

\* ------------------------------------------------ clean_filename (131-177)
InvalidChars == {"<", ">", ":", "\"", "/", "\\", "|", "?", "*"}

\* re.sub(invalid_chars, '_', s), then the removal of quotes (146-147)
RECURSIVE ReplaceInvalid(_)
ReplaceInvalid(s) ==
    IF Len(s) = 0 THEN ""
    ELSE LET c == SubSeq(s, 1, 1)
             r == IF c \in InvalidChars THEN "_" ELSE IF c = "'" THEN "" ELSE c
         IN  r \o ReplaceInvalid(SubSeq(s, 2, Len(s)))

\* re.sub(r'\s+', ' ', s)
RECURSIVE CollapseSpaces(_)
CollapseSpaces(s) ==
    IF Len(s) < 2 THEN s
    ELSE IF SubSeq(s, 1, 1) = " " /\ SubSeq(s, 2, 2) = " "
         THEN CollapseSpaces(SubSeq(s, 2, Len(s)))
         ELSE SubSeq(s, 1, 1) \o CollapseSpaces(SubSeq(s, 2, Len(s)))

RECURSIVE LStrip(_, _)
LStrip(s, chars) ==
    IF Len(s) > 0 /\ SubSeq(s, 1, 1) \in chars THEN LStrip(SubSeq(s, 2, Len(s)), chars) ELSE s

RECURSIVE RStrip(_, _)
RStrip(s, chars) ==
    IF Len(s) > 0 /\ SubSeq(s, Len(s), Len(s)) \in chars
    THEN RStrip(SubSeq(s, 1, Len(s) - 1), chars) ELSE s

clean_filename(filename) ==
    LET stripped == RStrip(LStrip(CollapseSpaces(ReplaceInvalid(filename)), {" "}), {" "})
        main_part == Split(stripped, " - ")[1]
        limited == IF Len(stripped) > MaxNameLen
                   THEN IF Contains(stripped, " - ") /\ Len(main_part) <= MaxNameLen
                        THEN main_part
                        ELSE SubSeq(main_part, 1, MaxNameLen - 3) \o "..."
                   ELSE stripped
    IN  RStrip(limited, {".", " "})

\* ---------------------------------------------- get_reviews_path (179-219)
Cwd == "/srv/app"     \* os.getcwd() of the run

PathOf(name) == "reviews/" \o name \o "/" \o name \o "_reviews.json"

\* makedirs is "ok", or fails once ("fallback": the timestamp name is used),
\* or fails twice ("raise": line 213 raises out of the driver)
get_reviews_path(product_name, makedirs, t) ==
    LET cleaned == clean_filename(product_name)
        short == IF Len(Cwd \o "/" \o PathOf(cleaned)) > 240
                 THEN SubSeq(cleaned, 1, Min(30, Len(cleaned))) \o "..."
                 ELSE cleaned
    IN  IF makedirs = "ok" THEN PathOf(short)
        ELSE PathOf("product_" \o ToString(t))

\* --------------------------------------------------- JSON documents, files
\* A parsed JSON document: type is "object" or "array" (any non-object);
\* reviewsType tells what document["reviews"] is: "object" (a mapping),
\* "array" (a list of reviewsLen items), "null", or "missing" (no such key).
\* A file whose text is not JSON (or that cannot be read) has type "invalid".
Doc(name, revs) ==
    [type |-> "object", product_name |-> name, product_id |-> ProductId,
     reviewsType |-> "object", reviews |-> revs, reviewsLen |-> 0]

InvalidFile == [Doc(None, EmptyMap) EXCEPT !.type = "invalid"]
ArrayDoc == [Doc(None, EmptyMap) EXCEPT !.type = "array"]
NoReviewsDoc == [Doc("A", EmptyMap) EXCEPT !.reviewsType = "missing"]
NullReviewsDoc == [Doc("A", EmptyMap) EXCEPT !.reviewsType = "null"]
ListReviewsDoc == [Doc("A", EmptyMap) EXCEPT !.reviewsType = "array", !.reviewsLen = 2]

OldReview(k) == [comment |-> "old_" \o k, details |-> << >>]

\* a checkpoint with the keys review_n, n in ns
CheckpointOf(ns) == Doc("A", [k \in {ReviewKey(n) : n \in ns} |-> OldReview(k)])

\* json.load succeeded and gave something that supports d["reviews"][k] = v
Writable(doc) == doc.type = "object" /\ doc.reviewsType = "object"

\* ------------------------------------- save_processed_reviews (112-129)
\* outcome "ok": the file holds the document; "open_fails": open() raises,
\* the file system is as before; "dump_fails": the file was truncated and
\* json.dump raised.  The exception is caught in all cases (127-129).
save_processed_reviews(files, processed, path, outcome) ==
    IF outcome = "ok" THEN Put(files, path, processed)
    ELSE IF outcome = "dump_fails" THEN Put(files, path, InvalidFile)
    ELSE files

\* lines 127-129 and 315, 347: the exception of a failing save is caught and
\* the returned bool is ignored: control continues at `continuation`
SaveRaises(outcome, continuation) == IF outcome = "ok" THEN continuation ELSE "raised"

AfterSave(outcome, continuation) == continuation

SaveDueOffByOne(total, path) == total % SaveEvery = 1 /\ Truthy(path)

\* line 313
SaveDue(total, path) == total % SaveEvery = 0 /\ Truthy(path)

FinalSaveOnMultiple(total, path) == Truthy(path) /\ total % SaveEvery = 0

\* line 345
FinalSaveDue(total, path) == Truthy(path) /\ total % SaveEvery # 0

NewReviewIdPageLocal(total, review_id) == ReviewKey(ReviewIndex(review_id))

\* line 308
NewReviewId(total, review_id) == ReviewKey(total + ReviewIndex(review_id))

\* --------------------------------------------------------------- state
VARIABLES
    world,                   \* the synthetic source and file system of the run
    product_name, max_pages, \* arguments (never assigned)
    output_file,             \* argument, assigned at line 301
    cursor, page_count, total_reviews_processed,
    reviews_this_minute, minute_start_time, extracted_product_name,
    processed_data,
    reviews_data,            \* the page fetched at line 277
    page_processed_data,     \* line 292
    merge_idx,               \* position of the loop of line 306 (1-based)
    pc,                      \* "load", "rate", "fetch", "merge", "next", "final",
                             \* "done" (returned), "raised" (an exception left the driver)
    now,                     \* time.time()
    fs,                      \* path -> file content
    \* history
    fs0,                     \* the file system when the driver was called
    pages,                   \* per fetch: [cursor, size, next]
    saves,                   \* per save_processed_reviews call: [total, path, at, ok]
    ingests,                 \* per page counted by the rate limiter: [t, n]
    sleeps                   \* per time.sleep: [t, elapsed, duration, counter]

vars == << world, product_name, max_pages, output_file, cursor, page_count,
           total_reviews_processed, reviews_this_minute, minute_start_time,
           extracted_product_name, processed_data, reviews_data,
           page_processed_data, merge_idx, pc, now, fs, fs0, pages, saves,
           ingests, sleeps >>

driver == << output_file, cursor, page_count, total_reviews_processed,
             reviews_this_minute, minute_start_time, extracted_product_name,
             processed_data, reviews_data, page_processed_data, merge_idx >>

NoPage == [hasResults |-> FALSE, results |-> << >>, next |-> None]
NoProcessed == [product_name |-> None, product_id |-> ProductId, reviews |-> << >>]

\* ------------------------------------------------------- the environment
Cur(k) == "c" \o ToString(k)

\* the forms of a page's next token that lead to page k
NextForms(k) ==
    [absent |-> None,
     empty |-> "",
     token |-> Cur(k),
     url |-> "https://bm/reviews?order_by=rel&cursor=" \o Cur(k),
     url_blank |-> "https://bm/reviews?order_by=rel&cursor=",
     url_paged |-> "https://bm/reviews?order_by=rel&page=" \o ToString(k),
     bare |-> "cursor=" \o Cur(k)]

\* the n-th review the source serves in this run (n = 1, 2, ...)
RawReview(n, title) ==
    [comment |-> "r" \o ToString(n),
     title |-> title,
     details |-> [i \in 1..(n % (MaxDetails + 2)) |->
                    [identifier |-> "d" \o ToString(i), rate |-> i]]]

\* a page of `size` reviews following `served` reviews already served
RawPage(served, size, title, next) ==
    [hasResults |-> TRUE,
     results |-> [i \in 1..size |-> RawReview(served + i, title)],
     next |-> next]

ErrorResult == NoPage                     \* line 45: {"error": ...}
EmptyPage(next) == [hasResults |-> TRUE, results |-> << >>, next |-> next]

ExplicitPath == "out.json"
TitleX == "Phone: X - 128 GB"

\* Sources under which the driver is run.  Each fixes the page sizes, next
\* token forms, fetch durations, titles, and the outcomes of save / makedirs.
PagedWorld ==
    [name |-> "paged", sizes |-> {1, 2, MidPage}, nexts |-> {"absent", "token"},
     delays |-> {0}, titles |-> {TitleX}, saveOutcomes |-> {"ok"},
     makedirs |-> {"ok"}, failures |-> {"http_error", "raise"}]

CursorWorld ==
    [name |-> "cursor", sizes |-> {1},
     nexts |-> {"absent", "empty", "token", "url", "url_blank", "url_paged", "bare"},
     delays |-> {0}, titles |-> {TitleX, "", Missing}, saveOutcomes |-> {"ok"},
     makedirs |-> {"ok", "fallback", "raise"},
     failures |-> {"http_error", "raise", "no_results", "empty"}]

DiskWorld ==
    [name |-> "disk", sizes |-> {SaveEvery - 1, MidPage}, nexts |-> {"absent", "url"},
     delays |-> {0}, titles |-> {"", TitleX},
     saveOutcomes |-> {"ok", "open_fails", "dump_fails"},
     makedirs |-> {"ok"}, failures |-> {"empty"}]

ResumeWorld ==
    [name |-> "resume", sizes |-> {1, 2}, nexts |-> {"absent", "token"},
     delays |-> {0}, titles |-> {TitleX}, saveOutcomes |-> {"ok"},
     makedirs |-> {"ok"}, failures |-> {"empty"}]

BurstWorld ==
    [name |-> "burst", sizes |-> {BigPage}, nexts |-> {"token"},
     delays |-> {0, Window \div 2, Window}, titles |-> {TitleX},
     saveOutcomes |-> {"ok"}, makedirs |-> {"ok"}, failures |-> {"empty"}]

NoFiles == [k \in {} |-> InvalidFile]
FileAt(path, doc) == [k \in {path} |-> doc]

DerivedPath == get_reviews_path(TitleX, "ok", 0)

\* the arguments and the initial file system each source is run with
ArgsOf(w) ==
    CASE w.name = "paged" ->
           [names |-> {None, "A"}, outputs |-> {None, ExplicitPath},
            maxPages |-> 0..MaxPagesArg,
            files |-> {NoFiles, FileAt(ExplicitPath, CheckpointOf(1..7)),
                       FileAt(DerivedPath, CheckpointOf(1..2))}]
      [] w.name = "cursor" ->
           [names |-> {None}, outputs |-> {None, ExplicitPath},
            maxPages |-> {0, 2},
            files |-> {NoFiles}]
      [] w.name = "disk" ->
           [names |-> {None}, outputs |-> {None, ExplicitPath},
            maxPages |-> {0},
            files |-> {NoFiles, FileAt(ExplicitPath, CheckpointOf(1..7))}]
      [] w.name = "resume" ->
           [names |-> {None, "A"}, outputs |-> {"", ExplicitPath},
            maxPages |-> {0, 2},
            files |-> {FileAt(ExplicitPath, d) :
                         d \in {InvalidFile, ArrayDoc, NoReviewsDoc, NullReviewsDoc,
                                ListReviewsDoc, CheckpointOf(1..2),
                                CheckpointOf({1, 3, 5})}}]
      [] w.name = "burst" ->
           [names |-> {"A"}, outputs |-> {None}, maxPages |-> {0},
            files |-> {NoFiles}]

Worlds == {PagedWorld, CursorWorld, DiskWorld, ResumeWorld, BurstWorld}

\* lines 234-246: the driver's locals before the checkpoint is looked for
InitIn(ws) ==
    /\ world \in ws
    /\ product_name \in ArgsOf(world).names
    /\ output_file \in ArgsOf(world).outputs
    /\ max_pages \in ArgsOf(world).maxPages
    /\ fs \in ArgsOf(world).files
    /\ fs0 = fs
    /\ cursor = None
    /\ page_count = 0
    /\ total_reviews_processed = 0
    /\ reviews_this_minute = 0
    /\ now = 0
    /\ minute_start_time = now
    /\ extracted_product_name = None
    /\ processed_data = Doc(product_name, EmptyMap)
    /\ reviews_data = NoPage
    /\ page_processed_data = NoProcessed
    /\ merge_idx = 0
    /\ pc = "load"
    /\ pages = << >>
    /\ saves = << >>
    /\ ingests = << >>
    /\ sleeps = << >>

Init == InitIn(Worlds)

\* --------------------------------------------------------------- actions
\* lines 248-257: load the existing checkpoint.  json.load's result is bound
\* to processed_data before len(processed_data["reviews"]) is evaluated, so
\* an exception of the latter leaves the loaded document in processed_data.
LoadedData(file, initial) ==
    IF file.type = "invalid" THEN initial ELSE file

LoadedCount(file) ==
    IF file.type = "object" /\ file.reviewsType = "object"
    THEN Cardinality(DOMAIN file.reviews)
    ELSE IF file.type = "object" /\ file.reviewsType = "array"
    THEN file.reviewsLen
    ELSE 0

\* line 249
CheckpointFound(path, files) == Truthy(path) /\ path \in DOMAIN files

Load ==
    /\ pc = "load"
    /\ IF CheckpointFound(output_file, fs)
       THEN /\ processed_data' = LoadedData(fs[output_file], processed_data)
            /\ total_reviews_processed' = LoadedCount(fs[output_file])
       ELSE UNCHANGED << processed_data, total_reviews_processed >>
    /\ pc' = "rate"
    /\ UNCHANGED << world, product_name, max_pages, output_file, cursor, page_count,
                    reviews_this_minute, minute_start_time, extracted_product_name,
                    reviews_data, page_processed_data, merge_idx, now, fs, fs0,
                    pages, saves, ingests, sleeps >>

WindowElapsedHalfway(elapsed) == elapsed >= Window \div 2

\* lines 261-273
WindowElapsed(elapsed) == elapsed >= Window
MustSleep(elapsed, counter) == ~WindowElapsed(elapsed) /\ counter >= RateLimit

RateLimitCheck ==
    /\ pc = "rate"
    /\ LET elapsed == now - minute_start_time
           sleep_time == Window - elapsed
       IN  IF WindowElapsed(elapsed)
           THEN /\ minute_start_time' = now
                /\ reviews_this_minute' = 0
                /\ UNCHANGED << now, sleeps >>
           ELSE IF MustSleep(elapsed, reviews_this_minute)
           THEN /\ now' = now + sleep_time
                /\ minute_start_time' = now'
                /\ reviews_this_minute' = 0
                /\ sleeps' = Append(sleeps, [t |-> now, elapsed |-> elapsed,
                                             duration |-> sleep_time,
                                             counter |-> reviews_this_minute])
           ELSE UNCHANGED << now, minute_start_time, reviews_this_minute, sleeps >>
    /\ pc' = "fetch"
    /\ UNCHANGED << world, product_name, max_pages, output_file, cursor, page_count,
                    total_reviews_processed, extracted_product_name, processed_data,
                    reviews_data, page_processed_data, merge_idx, fs, fs0, pages,
                    saves, ingests >>

\* the reviews the source has served so far in this run
RECURSIVE Served(_)
Served(ps) == IF Len(ps) = 0 THEN 0 ELSE ps[Len(ps)].size + Served(SubSeq(ps, 1, Len(ps) - 1))

\* requests.get + response.json() for fetch number k (lines 40-45): the
\* bodies the source may answer with.  A source serves at most MaxFetches
\* pages: its last page has no next token.
Responses(w, k, served) ==
    LET forms == IF k < MaxFetches THEN w.nexts ELSE {"absent"}
    IN  {RawPage(served, size, title, NextForms(k + 1)[f]) :
            size \in w.sizes, title \in w.titles, f \in forms}
        \cup (IF "http_error" \in w.failures \/ "no_results" \in w.failures
              THEN {ErrorResult} ELSE {})
        \cup (IF "empty" \in w.failures
              THEN {EmptyPage(NextForms(k + 1)[f]) : f \in forms} ELSE {})

\* line 280
NoResults(data) == ~data.hasResults \/ Len(data.results) = 0

DerivesOverExplicit(named, path) == named

\* lines 295-301: the output path is derived when the name is first taken
\* from a page and no output_file was given
DerivesPath(named, path) == named /\ path = None

\* lines 276-303: fetch a page; stop when it has no results; otherwise count
\* it, normalize it, and take the product name and the output path from it
Fetch ==
    /\ pc = "fetch"
    /\ \E r \in Responses(world, Len(pages) + 1, Served(pages)),
          d \in world.delays, mk \in world.makedirs, raises \in BOOLEAN :
        LET ppd == ProcessReviews(r, ProductId, product_name)
            named == ~Truthy(extracted_product_name) /\ Truthy(ppd.product_name)
            nameFails == named /\ processed_data.type # "object"
            derive == DerivesPath(named /\ ~nameFails, output_file)
            n == Len(r.results)
        IN
        /\ raises => "raise" \in world.failures
        /\ now + d <= MaxTime \/ d = 0
        /\ IF raises
           THEN \* requests.get raises: nothing in the driver catches it
                /\ pc' = "raised"
                /\ pages' = Append(pages, [cursor |-> cursor, size |-> 0, next |-> None,
                                           outcome |-> "raise"])
                /\ UNCHANGED << driver, now, ingests >>
           ELSE
             /\ now' = now + d
             /\ reviews_data' = r
             /\ pages' = Append(pages, [cursor |-> cursor, size |-> n, next |-> r.next,
                                        outcome |-> IF r = ErrorResult THEN "error"
                                                    ELSE "page"])
             /\ IF NoResults(r)
                THEN /\ pc' = "final"
                     /\ UNCHANGED << output_file, reviews_this_minute,
                                     extracted_product_name, processed_data,
                                     page_processed_data, merge_idx, ingests >>
                ELSE /\ reviews_this_minute' = reviews_this_minute + n
                     /\ ingests' = Append(ingests, [t |-> now', n |-> n])
                     /\ page_processed_data' = ppd
                     /\ extracted_product_name' =
                            IF named THEN ppd.product_name ELSE extracted_product_name
                     /\ processed_data' =
                            IF named /\ ~nameFails
                            THEN [processed_data EXCEPT !.product_name = ppd.product_name]
                            ELSE processed_data
                     /\ output_file' =
                            IF derive /\ mk # "raise"
                            THEN get_reviews_path(ppd.product_name, mk, now')
                            ELSE output_file
                     /\ merge_idx' = 1
                     /\ pc' = IF nameFails \/ (derive /\ mk = "raise")
                              THEN "raised" ELSE "merge"
             /\ UNCHANGED << cursor, page_count, total_reviews_processed,
                             minute_start_time >>
    /\ UNCHANGED << world, product_name, max_pages, fs, fs0, saves, sleeps >>

\* lines 306-315: one iteration of the merge loop, with its checkpoint save
Merge ==
    /\ pc = "merge"
    /\ LET item == page_processed_data.reviews[merge_idx]
           new_review_id == NewReviewId(total_reviews_processed, item[1])
           last == merge_idx = Len(page_processed_data.reviews)
       IN
       IF ~Writable(processed_data)
       THEN \* processed_data["reviews"][...] = ... raises KeyError / TypeError
            /\ pc' = "raised"
            /\ UNCHANGED << processed_data, total_reviews_processed, merge_idx, fs, saves >>
       ELSE
         /\ processed_data' =
              [processed_data EXCEPT !.reviews = Put(@, new_review_id, item[2])]
         /\ total_reviews_processed' = total_reviews_processed + 1
         /\ IF SaveDue(total_reviews_processed', output_file)
            THEN \E outcome \in world.saveOutcomes :
                   /\ fs' = save_processed_reviews(fs, processed_data', output_file, outcome)
                   /\ saves' = Append(saves, [total |-> total_reviews_processed',
                                              path |-> output_file, at |-> "merge",
                                              ok |-> outcome = "ok"])
                   /\ pc' = AfterSave(outcome, IF last THEN "next" ELSE "merge")
            ELSE /\ UNCHANGED << fs, saves >>
                 /\ pc' = IF last THEN "next" ELSE "merge"
         /\ merge_idx' = merge_idx + 1
    /\ UNCHANGED << world, product_name, max_pages, output_file, cursor, page_count,
                    reviews_this_minute, minute_start_time, extracted_product_name,
                    reviews_data, page_processed_data, now, fs0, pages, ingests,
                    sleeps >>

\* line 340
PageCapReached(count, cap) == cap # 0 /\ count >= cap

\* lines 317-342: take the next cursor; stop without one or at the page cap
NextCursor ==
    /\ pc = "next"
    /\ cursor' = ExtractCursor(reviews_data.next)
    /\ IF ~Truthy(cursor')
       THEN /\ pc' = "final"
            /\ UNCHANGED page_count
       ELSE /\ page_count' = page_count + 1
            /\ pc' = IF PageCapReached(page_count', max_pages) THEN "final" ELSE "rate"
    /\ UNCHANGED << world, product_name, max_pages, output_file,
                    total_reviews_processed, reviews_this_minute, minute_start_time,
                    extracted_product_name, processed_data, reviews_data,
                    page_processed_data, merge_idx, now, fs, fs0, pages, saves,
                    ingests, sleeps >>

\* lines 344-349: the final save and the return of processed_data
FinalSave ==
    /\ pc = "final"
    /\ IF FinalSaveDue(total_reviews_processed, output_file)
       THEN \E outcome \in world.saveOutcomes :
              /\ fs' = save_processed_reviews(fs, processed_data, output_file, outcome)
              /\ saves' = Append(saves, [total |-> total_reviews_processed,
                                         path |-> output_file, at |-> "final",
                                         ok |-> outcome = "ok"])
              /\ pc' = AfterSave(outcome, "done")
       ELSE /\ UNCHANGED << fs, saves >>
            /\ pc' = "done"
    /\ UNCHANGED << world, product_name, max_pages, driver, now, fs0, pages,
                    ingests, sleeps >>

Next == Load \/ RateLimitCheck \/ Fetch \/ Merge \/ NextCursor \/ FinalSave

Spec == Init /\ [][Next]_vars

\* -------------------------------------- process_reviews called on its own
MaxRawReviews == 3   \* reviews of a page given to process_reviews
MaxRawDetails == 6   \* rating entries of a raw review

\* the rating entries of review n: identifiers and rates tell them apart
RawDetails(n, len) ==
    [i \in 1..len |-> [identifier |-> "d" \o ToString(n) \o "_" \o ToString(i),
                       rate |-> (n + i) % 6]]

\* pages of k reviews, all with the product title `title`, review i with
\* lens[i] rating entries
RawPages ==
    {NoPage} \cup
    UNION {{[hasResults |-> TRUE,
             results |-> [i \in 1..k |->
                            [comment |-> "r" \o ToString(i), title |-> title,
                             details |-> RawDetails(i, lens[i])]],
             next |-> None] :
              lens \in [1..k -> 0..MaxRawDetails], title \in {Missing, None, "", TitleX}} :
           k \in 0..MaxRawReviews}

NormInit ==
    /\ world = PagedWorld
    /\ product_name \in {None, "", "A"}
    /\ output_file = None
    /\ max_pages = 0
    /\ fs = NoFiles
    /\ fs0 = fs
    /\ cursor = None
    /\ page_count = 0
    /\ total_reviews_processed = 0
    /\ reviews_this_minute = 0
    /\ now = 0
    /\ minute_start_time = now
    /\ extracted_product_name = None
    /\ processed_data = Doc(product_name, EmptyMap)
    /\ reviews_data \in RawPages
    /\ page_processed_data = NoProcessed
    /\ merge_idx = 0
    /\ pc = "call"
    /\ pages = << >>
    /\ saves = << >>
    /\ ingests = << >>
    /\ sleeps = << >>

\* page_processed_data = self.process_reviews(reviews_data, product_id, product_name)
Normalize ==
    /\ pc = "call"
    /\ page_processed_data' = ProcessReviews(reviews_data, ProductId, product_name)
    /\ pc' = "returned"
    /\ UNCHANGED << world, product_name, max_pages, output_file, cursor, page_count,
                    total_reviews_processed, reviews_this_minute, minute_start_time,
                    extracted_product_name, processed_data, reviews_data, merge_idx,
                    now, fs, fs0, pages, saves, ingests, sleeps >>

NormNext == Normalize

NormSpec == NormInit /\ [][NormNext]_vars

\* =============================================================== claims
Keys(ns) == {ReviewKey(n) : n \in ns}
Finished == pc \in {"done", "raised"}
FetchCount == Len(pages)

\* C1: in a run that starts with no file on disk, the keys of the returned
\* reviews mapping are exactly review_1..review_K, K = total_reviews_processed.
C1_ContiguousKeys ==
    (pc = "done" /\ fs0 = NoFiles)
        => DOMAIN processed_data.reviews = Keys(1..total_reviews_processed)

\* C2: a run resumed from a checkpoint review_1..review_M that ingests J more
\* reviews returns exactly review_1..review_(M+J), the j-th new review under
\* review_(M+j).
C2_ResumeAppends ==
    \A M \in {2, 7} :
        (/\ pc = "done"
         /\ output_file = ExplicitPath
         /\ fs0 = FileAt(ExplicitPath, CheckpointOf(1..M)))
        => LET J == Served(pages) IN
           /\ DOMAIN processed_data.reviews = Keys(1..(M + J))
           /\ \A j \in 1..J :
                processed_data.reviews[ReviewKey(M + j)].comment = "r" \o ToString(j)

\* the reviews counted in the window of Window seconds that starts at s
RECURSIVE CountIn(_, _)
CountIn(log, s) ==
    IF Len(log) = 0 THEN 0
    ELSE (IF Head(log).t >= s /\ Head(log).t < s + Window THEN Head(log).n ELSE 0)
         + CountIn(Tail(log), s)

\* C3: the number of reviews ingested within any rolling window of 60 seconds
\* never exceeds 250.
C3_RollingWindowBound ==
    \A i \in 1..Len(ingests) : CountIn(ingests, ingests[i].t) <= 250

\* C4: a checkpoint that exists at the path the run saves to (explicit or
\* derived) is loaded first, so every review it held is still in the file
\* after the run has saved there.
C4_StoredReviewsKept ==
    \A p \in DOMAIN fs0 :
        (/\ Writable(fs0[p])
         /\ DOMAIN fs0[p].reviews = Keys(1..Cardinality(DOMAIN fs0[p].reviews))
         /\ Writable(fs[p]))
        => \A k \in DOMAIN fs0[p].reviews :
              k \in DOMAIN fs[p].reviews /\ fs[p].reviews[k] = fs0[p].reviews[k]

\* C5: with the output path resolved, a merge step calls save exactly when it
\* makes total_reviews_processed a multiple of 10, the STOP step calls it
\* exactly when the total is not a multiple of 10, and nothing else saves.
C5_SaveCadence ==
    [][LET saved == Len(saves') = Len(saves) + 1
           resolved == output_file # None /\ output_file # ""
       IN  /\ saved \/ saves' = saves
           /\ saved => /\ SubSeq(saves', 1, Len(saves)) = saves
                       /\ saves'[Len(saves')].total = total_reviews_processed'
                       /\ saves'[Len(saves')].path = output_file
           /\ (pc = "merge" /\ pc' # "raised" /\ resolved)
                 => (saved <=> total_reviews_processed' % 10 = 0)
           /\ (pc = "final" /\ resolved)
                 => (saved <=> total_reviews_processed % 10 # 0)
           /\ (pc \notin {"merge", "final"} \/ ~resolved) => ~saved
      ]_vars

\* C5 witness: 25 reviews ingested, saved at 10, at 20 and at the end
C5_Witness ==
    /\ pc = "done"
    /\ Served(pages) = 25
    /\ [i \in 1..Len(saves) |-> << saves[i].total, saves[i].at >>]
          = << << 10, "merge" >>, << 20, "merge" >>, << 25, "final" >> >>

\* a next token from which a cursor for a further fetch is meant to be taken
ValidNext(tok) ==
    \E k \in 1..(MaxFetches + 1) : tok \in {NextForms(k).token, NextForms(k).url}

GoodPage(pg) == pg.outcome = "page" /\ pg.size >= 1

\* C6: with max_pages = N >= 1 and a source whose pages are all non-empty with
\* a valid next cursor the driver ends after exactly N fetches; for any
\* source the fetches never exceed N.
C6_PageCap ==
    max_pages >= 1 =>
        /\ FetchCount <= max_pages
        /\ (Finished /\ \A i \in 1..FetchCount :
                            GoodPage(pages[i]) /\ ValidNext(pages[i].next))
              => FetchCount = max_pages

\* C7: with no max_pages and a source whose pages are all non-empty, the next
\* tokens being n valid cursors followed by an absent next, the driver ends
\* after exactly n + 1 fetches: it fetches every page up to the one whose
\* next is absent and none after it.
C7_PaginationEnds ==
    (/\ max_pages = 0
     /\ Finished
     /\ FetchCount >= 1
     /\ \A i \in 1..FetchCount : GoodPage(pages[i])
     /\ \A i \in 1..FetchCount : ValidNext(pages[i].next) \/ pages[i].next = None)
    => /\ pages[FetchCount].next = None
       /\ \A i \in 1..(FetchCount - 1) : ValidNext(pages[i].next)

\* C8: a fetch that raises (network error) makes the driver stop as at the
\* end of pagination: it goes to the final save and returns.
C8_NetworkErrorStops ==
    (FetchCount > 0 /\ pages[FetchCount].outcome = "raise")
        => pc \in {"final", "done"}

\* C9: when the checkpoint at output_file cannot be used, the driver goes on
\* with the empty initial collection and total_reviews_processed = 0, and
\* merges pages normally.
C9_LoadFailureStartsEmpty ==
    (/\ output_file = ExplicitPath
     /\ ExplicitPath \in DOMAIN fs0
     /\ ~Writable(fs0[ExplicitPath])
     /\ pc \notin {"load"})
    => /\ (FetchCount = 0 => /\ processed_data = Doc(product_name, EmptyMap)
                             /\ total_reviews_processed = 0)
       /\ (pc = "raised" => pages[FetchCount].outcome = "raise")

\* C10: a save that fails does not abort the driver and changes none of its
\* state: the step that calls save leaves the driver where a successful save
\* leaves it.
C10_FailedSaveHarmless ==
    [][(/\ Len(saves') = Len(saves) + 1
        /\ (output_file \notin DOMAIN fs' \/ fs'[output_file] # processed_data'))
       => /\ pc' # "raised"
          /\ cursor' = cursor
          /\ page_count' = page_count
          /\ output_file' = output_file
          /\ pc = "final" =>
                /\ pc' = "done"
                /\ processed_data' = processed_data
                /\ total_reviews_processed' = total_reviews_processed
          /\ pc = "merge" =>
                /\ pc' = (IF merge_idx = Len(page_processed_data.reviews)
                          THEN "next" ELSE "merge")
                /\ merge_idx' = merge_idx + 1
                /\ total_reviews_processed' = total_reviews_processed + 1
                /\ processed_data' =
                      [processed_data EXCEPT !.reviews =
                          Put(@, NewReviewId(total_reviews_processed,
                                             page_processed_data.reviews[merge_idx][1]),
                              page_processed_data.reviews[merge_idx][2])]
      ]_vars

\* C10 witness: a save at a multiple of 10 failed and the merge loop went on
C10_Witness ==
    /\ pc = "merge"
    /\ Len(saves) >= 1
    /\ saves[Len(saves)].at = "merge"
    /\ total_reviews_processed > saves[Len(saves)].total
    /\ output_file \in DOMAIN fs => fs[output_file] = InvalidFile

\* C11: for every source and configuration the driver eventually reaches STOP
\* and returns the accumulated collection; no error aborts it.
\* As a property of finite runs: a driver that has not returned can take its
\* next step (nothing has thrown it out of the loop).
C11_ReturnsOrRuns == pc = "done" \/ ENABLED Next

\* the raw reviews process_reviews was given
RawResults == IF reviews_data.hasResults THEN reviews_data.results ELSE << >>

\* C12: process_reviews on a page of K raw reviews returns exactly K entries,
\* the i-th under review_i and built from the i-th raw review, its details
\* being the first min(5, len) rating entries of that review in order.
C12_NormalizeKeepsOrder ==
    pc = "returned" =>
        LET out == page_processed_data.reviews IN
        /\ Len(out) = Len(RawResults)
        /\ \A i \in 1..Len(out) :
             LET raw == RawResults[i]
                 n == IF Len(raw.details) < 5 THEN Len(raw.details) ELSE 5
             IN  /\ out[i][1] = "review_" \o ToString(i)
                 /\ out[i][2].comment = raw.comment
                 /\ Len(out[i][2].details) = n
                 /\ \A j \in 1..n :
                      /\ out[i][2].details[j].identifier = raw.details[j].identifier
                      /\ out[i][2].details[j].rate = raw.details[j].rate
        /\ \A i, j \in 1..Len(out) : out[i][1] = out[j][1] => i = j

\* C12 witness: a page of several reviews, one of them with more than 5 details
C12_Witness ==
    /\ pc = "returned"
    /\ Len(RawResults) >= 2
    /\ \E i \in 1..Len(RawResults) :
         /\ Len(RawResults[i].details) > 5
         /\ Len(page_processed_data.reviews[i][2].details) = 5

\* C13 as claimed: without a product name, process_reviews returns the first
\* review's product title when the page has reviews and Product_<productId>
\* when the page is empty, never an absent name.
C13_NameTitleOrDefault ==
    (pc = "returned" /\ product_name = None) =>
        /\ page_processed_data.product_name # None
        /\ Len(RawResults) = 0 =>
              page_processed_data.product_name = "Product_" \o ProductId
        /\ (Len(RawResults) > 0 /\ RawResults[1].title # Missing) =>
              page_processed_data.product_name = RawResults[1].title

\* C13 amended: without a product name, process_reviews returns the value of
\* the first review's product title when the page has reviews and that
\* review has one, Product_<productId> when the first review has no product
\* title, and the absent name it was given when the page is empty.
C13_NameFromFirstReview ==
    (pc = "returned" /\ product_name \in {None, ""}) =>
        /\ (Len(RawResults) > 0 /\ RawResults[1].title # Missing) =>
              page_processed_data.product_name = RawResults[1].title
        /\ (Len(RawResults) > 0 /\ RawResults[1].title = Missing) =>
              page_processed_data.product_name = "Product_" \o ProductId
        /\ Len(RawResults) = 0 =>
              page_processed_data.product_name = product_name

\* C13 witness: an empty page normalized without a product name
C13_Witness ==
    /\ pc = "returned"
    /\ product_name = None
    /\ reviews_data.hasResults
    /\ Len(RawResults) = 0
    /\ page_processed_data.product_name = None

\* the comments of the reviews held by a collection
CommentsIn(doc) == {doc.reviews[k].comment : k \in DOMAIN doc.reviews}

\* the last fetch returned an error result (non-200 response)
EndedByError == FetchCount > 0 /\ pages[FetchCount].outcome = "error"

\* C14: after a fetch that returns an error result the driver fetches no
\* more and merges nothing from that iteration; it returns a collection that
\* holds every review merged from the earlier pages, after the final persist
\* when the total is not a multiple of 10.
C14_ErrorResultStops ==
    /\ \A i \in 1..(FetchCount - 1) : pages[i].outcome # "error"
    /\ (EndedByError /\ pc = "done") =>
          /\ \A j \in 1..Served(pages) : ("r" \o ToString(j)) \in CommentsIn(processed_data)
          /\ total_reviews_processed % 10 # 0 =>
                /\ Len(saves) > 0
                /\ saves[Len(saves)].at = "final"
                /\ saves[Len(saves)].total = total_reviews_processed

\* the run was given an output_file that holds a checkpoint whose keys are
\* review_1..review_M, M >= 1 (a derived path is never ExplicitPath)
Resumed ==
    /\ output_file = ExplicitPath
    /\ CheckpointFound(output_file, fs0)
    /\ Writable(fs0[output_file])
    /\ DOMAIN fs0[output_file].reviews # {}
    /\ DOMAIN fs0[output_file].reviews =
          Keys(1..Cardinality(DOMAIN fs0[output_file].reviews))

\* C15: in a run resumed from a checkpoint review_1..review_M, from the load
\* on (hence also in the returned collection) every loaded entry is in
\* processed_data under its original id with its original content: merging
\* never writes a key review_n with n <= M.
C15_LoadedEntriesKept ==
    (Resumed /\ pc # "load")
        => \A k \in DOMAIN fs0[output_file].reviews :
              /\ k \in DOMAIN processed_data.reviews
              /\ processed_data.reviews[k] = fs0[output_file].reviews[k]

C15_Witness ==
    /\ Resumed
    /\ pc = "done"
    /\ FetchCount >= 2
    /\ Served(pages) >= 3
    /\ Cardinality(DOMAIN processed_data.reviews)
          > Cardinality(DOMAIN fs0[output_file].reviews)
\* C16: when the driver returns after ingesting at least one review in this
\* run, with an output path resolved and every save having succeeded, a save
\* was made and the file at the output path holds exactly the returned
\* collection -- whether that last write was a checkpoint or the final save.
C16_FileEqualsReturned ==
    (/\ pc = "done"
     /\ Len(ingests) > 0
     /\ Truthy(output_file)
     /\ \A i \in 1..Len(saves) : saves[i].ok)
        => /\ Len(saves) > 0
           /\ saves[Len(saves)].path = output_file
           /\ output_file \in DOMAIN fs
           /\ fs[output_file] = processed_data

C16_Witness ==
    /\ pc = "done"
    /\ Len(ingests) > 1
    /\ Len(saves) > 1
    /\ \A i \in 1..Len(saves) : saves[i].ok
    /\ saves[Len(saves)].at = "merge"
    /\ fs[output_file] = processed_data
    /\ fs0 # fs

\* C17: a fetch is only issued with reviews_this_minute below 250; a rate
\* check that finds the counter at 250 or more with less than 60 seconds
\* elapsed sleeps for the rest of the window (more than 0, at most 60
\* seconds), then sets the counter to 0 and the window start to the time
\* after the sleep.
C17_SleepBeforeFetch ==
    [][/\ pc' = "fetch" => reviews_this_minute' < 250
       /\ (/\ pc = "rate"
           /\ reviews_this_minute >= 250
           /\ now - minute_start_time < 60)
          => LET slept == now' - now IN
             /\ slept = 60 - (now - minute_start_time)
             /\ slept > 0 /\ slept <= 60
             /\ Len(sleeps') = Len(sleeps) + 1
             /\ sleeps'[Len(sleeps')].duration = slept
             /\ reviews_this_minute' = 0
             /\ minute_start_time' = now'
             /\ pc' = "fetch"
      ]_vars

\* C17 witness: the driver slept less than a whole window, with the counter
\* above the limit, and is about to fetch with the counter at 0
C17_Witness ==
    /\ pc = "fetch"
    /\ Len(sleeps) > 0
    /\ sleeps[Len(sleeps)].counter >= 250
    /\ sleeps[Len(sleeps)].duration < 60
    /\ now = sleeps[Len(sleeps)].t + sleeps[Len(sleeps)].duration
    /\ minute_start_time = now
    /\ reviews_this_minute = 0
\* C18: output_file is assigned at most once in a run, and only when none was
\* given: a given output_file is never replaced, a derived one is derived
\* before any save and kept, so every save of the run goes to output_file.
C18_OnePathPerRun ==
    [][/\ output_file' # output_file
            => /\ output_file = None
               /\ Truthy(output_file')
               /\ Len(saves) = 0
       /\ \A i \in 1..Len(saves') : saves'[i].path = output_file'
      ]_vars

\* C18 witness: a returned run of three fetches or more that derived its path
\* and saved to it at a checkpoint and at the end
C18_Witness ==
    /\ pc = "done"
    /\ fs0 = NoFiles
    /\ output_file = DerivedPath
    /\ FetchCount >= 3
    /\ Len(saves) >= 2
    /\ saves[1].at = "merge"
    /\ saves[Len(saves)].at = "final"
    /\ \A i \in 1..Len(saves) : saves[i].path = DerivedPath
\* a next token that is a full URL
IsUrl(tok) == Contains(tok, "://")

\* the cursor the next token stands for: none when the token is empty or
\* absent, the cursor query parameter of a URL (none when it has none), the
\* token itself otherwise
CursorOf(tok) ==
    IF ~Truthy(tok) THEN None
    ELSE IF IsUrl(tok)
    THEN LET vals == ParseQs(UrlQuery(tok), "cursor")
         IN  IF Len(vals) > 0 THEN vals[1] ELSE None
    ELSE tok

\* C19: the first fetch carries no cursor; every later fetch carries exactly
\* the cursor of the next token of the page fetched just before it, which is
\* neither empty nor absent; no cursor is used for two fetches.
C19_CursorChain ==
    /\ FetchCount >= 1 => pages[1].cursor = None
    /\ \A i \in 2..FetchCount :
          /\ Truthy(pages[i - 1].next)
          /\ Truthy(pages[i].cursor)
          /\ pages[i].cursor = CursorOf(pages[i - 1].next)
    /\ \A i, j \in 1..FetchCount : i # j => pages[i].cursor # pages[j].cursor
====
